---- MODULE Spec2Model ----
(***************************************************************************)
(* Generation job queue, single generation call and recovery protocol of   *)
(* the image generation web client (App component + imageGeneration        *)
(* service).                                                               *)
(*                                                                         *)
(* React state is modelled per hook: the variables queue, isProcessing,    *)
(* gridItems and error hold the hook state with every enqueued updater     *)
(* already applied (all updaters of the component are pure functions of    *)
(* the previous state, applied in call order); rendered holds the values   *)
(* captured by the closures of the last committed render.                  *)
(***************************************************************************)
EXTENDS Integers, Sequences, FiniteSets, TLC

\* ---------------------------------------------------------------- bounds
MaxBatches == 2       \* submissions accepted over one page session
MaxBatchSize == 2     \* largest batch size drawn for a submission
MaxStoredJobs == 1    \* job ids left in the durable store by an earlier session
MaxNewJobs == 1       \* job ids the server hands out in this session
MaxLoops == 2         \* a sign-out happens while fewer recovery loops were
                      \* started and fewer gallery loads are pending

MaxUploads == 2       \* asynchronous additions of reference images started in
                      \* the ControlPanel

\* ------------------------------------------------------- program constants
MAX_RETRIES == 3

MAX_REFERENCE_IMAGES == 6

VARIABLES
    user,           \* useAuth().user?.id ; 0 = no user
    profilePending, \* fetchProfile(user.id) not yet resolved
    gridItems,      \* useState<GridItem[]>
    queue,          \* useState<QueuedBatch[]>
    isProcessing,   \* useState(false)
    error,          \* useState<string | null> ; "null" = null
    rendered,       \* queue / isProcessing as captured by the last render
    depsTouched,    \* queue or processBatch identity changed since that render
    effectPending,  \* the sequencing effect of the last render has not run yet
    batchIdCounter, \* module-level counter of nextBatchId
    runs,           \* invocations of processBatch that passed its guard
    store,          \* localStorage[ACTIVE_JOBS_KEY]
    nextJobId,      \* server side: next job id to hand out
    polls,          \* pollJobUntilComplete loops started by the recovery effect
    loads,          \* calls of load() (gallery fetch) that have not settled
    observed,       \* history: job ids whose terminal status the client has seen
    lastOp,         \* history: the input of the last step, where a claim
                    \* needs it: "handleGenerate(blank)" / "handleGenerate",
                    \* the answer a generation call received, the outcome
                    \* of a client-side save, "reload" (", queue
                    \* dropped" when batches waited in the queue);
                    \* else "other"
    compression,    \* one call of compressImageForReference: its position,
                    \* its local quality and dataUrl (the length of the
                    \* string), and the history of its encodings
    referenceImages,        \* ControlPanel: useState<string[]>; "url" = an
                            \* object URL or an injected URL
    referenceImagesBase64,  \* ControlPanel: useState<string[]>
    renderedRefs,   \* referenceImages.length and referenceImagesBase64 as
                    \* captured by the last render of the ControlPanel
    pending,        \* ControlPanel: the asynchronous additions started (file
                    \* uploads and pastes, URL injections); n = entries to come
    attached        \* the reference list of the last request handed to
                    \* onGenerate

vars == <<user, profilePending, gridItems, queue, isProcessing, error,
          rendered, depsTouched, effectPending, batchIdCounter, runs, store,
          nextJobId, polls, loads, observed, lastOp, compression,
          referenceImages, referenceImagesBase64, renderedRefs, pending,
          attached>>

panelVars ==
    <<referenceImages, referenceImagesBase64, renderedRefs, pending, attached>>

\* no call of compressImageForReference has been made
NoCompression ==
    [pc |-> "idle", version |-> 0, quality |-> <<0, 0, 0>>, dataUrl |-> 0,
     encoded |-> <<>>]

\* the ControlPanel after mounting
PanelInit ==
    /\ referenceImages = <<>>
    /\ referenceImagesBase64 = <<>>
    /\ renderedRefs = [refs |-> 0, base64 |-> <<>>]
    /\ pending = <<>>
    /\ attached = <<>>

\* ------------------------------------------------------------ sequences
Includes(s, x) == \E n \in DOMAIN s : s[n] = x

\* ----------------------------------------------------- durable job-id store
\* JSON.parse(localStorage.getItem(ACTIVE_JOBS_KEY) || '[]')
ParseStore(v) ==
    IF v.kind = "missing" THEN [ok |-> TRUE, ids |-> <<>>]
    ELSE IF v.kind = "corrupt" THEN [ok |-> FALSE, ids |-> <<>>]
    ELSE [ok |-> TRUE, ids |-> v.ids]

StoreList(ids) == [kind |-> "list", ids |-> ids]

\* an add that writes its own id without reading what is stored
addActiveJob_Overwrite(v, jobId) == StoreList(<<jobId>>)

addActiveJob(v, jobId) ==
    LET p == ParseStore(v)
    IN  IF ~p.ok THEN v
        ELSE StoreList(IF Includes(p.ids, jobId) THEN p.ids ELSE Append(p.ids, jobId))

\* a filter with the comparison inverted
removeActiveJob_Inverted(v, jobId) ==
    LET p == ParseStore(v)
    IN  IF ~p.ok THEN v
        ELSE StoreList(SelectSeq(p.ids, LAMBDA id : id = jobId))

removeActiveJob(v, jobId) ==
    LET p == ParseStore(v)
    IN  IF ~p.ok THEN v
        ELSE StoreList(SelectSeq(p.ids, LAMBDA id : id # jobId))

getActiveJobIds(v) ==
    LET p == ParseStore(v)
    IN  IF ~p.ok THEN <<>> ELSE p.ids

ActiveIds == {getActiveJobIds(store)[n] : n \in DOMAIN getActiveJobIds(store)}

\* ------------------------------------------------------------- grid items
Placeholder(batchId, idx, status) ==
    [type |-> "placeholder", origin |-> "batch", key |-> batchId, idx |-> idx,
     status |-> status]

RecoveryPlaceholder(jobId) ==
    [type |-> "placeholder", origin |-> "recovery", key |-> jobId, idx |-> 0,
     status |-> "generating"]

\* the grid entry processBatch builds for image idx of a batch
ImageItem(batchId, idx) ==
    [type |-> "image", origin |-> "batch", key |-> batchId, idx |-> idx,
     status |-> "image"]

\* Array.from({ length: batchSize }, (_, i) => `ph-${batch.id}-${i}`)
IsPlaceholderOf(item, batchId, batchSize) ==
    /\ item.type = "placeholder"
    /\ item.origin = "batch"
    /\ item.key = batchId
    /\ item.idx \in 0..(batchSize - 1)

\* a filter that drops every placeholder, whose ever it is
WithoutPlaceholders_All(items, batchId, batchSize) ==
    SelectSeq(items, LAMBDA p : p.type # "placeholder")

\* prev.filter((p) => p.type !== 'placeholder' || !placeholderIds.includes(p.id))
WithoutPlaceholders(items, batchId, batchSize) ==
    SelectSeq(items, LAMBDA p : ~IsPlaceholderOf(p, batchId, batchSize))

MarkGenerating(items, batchId, batchSize) ==
    [n \in DOMAIN items |->
        IF IsPlaceholderOf(items[n], batchId, batchSize)
        THEN [items[n] EXCEPT !.status = "generating"]
        ELSE items[n]]

\* ------------------------------------------------------------------ prompt
\* a prompt is a string over one blank and one letter; trim() strips blanks
Prompts == {<<>>, <<" ">>, <<"a">>, <<" ", "a">>, <<" ", " ">>}

RECURSIVE TrimStart(_)
TrimStart(p) ==
    IF p # <<>> /\ Head(p) = " " THEN TrimStart(Tail(p)) ELSE p

RECURSIVE TrimEnd(_)
TrimEnd(p) ==
    IF p # <<>> /\ p[Len(p)] = " " THEN TrimEnd(SubSeq(p, 1, Len(p) - 1)) ELSE p

Trim(p) == TrimEnd(TrimStart(p))

\* ------------------------------------------------------------------- Init
\* the App component right after it mounted, before useAuth reported a user,
\* with nothing under the durable-store key
Init ==
    /\ user = 0
    /\ profilePending = FALSE
    /\ gridItems = <<>>
    /\ queue = <<>>
    /\ isProcessing = FALSE
    /\ error = "null"
    /\ rendered = [queue |-> <<>>, isProcessing |-> FALSE]
    /\ depsTouched = FALSE
    /\ effectPending = FALSE
    /\ batchIdCounter = 0
    /\ runs = <<>>
    /\ store = [kind |-> "missing", ids |-> <<>>]
    /\ nextJobId = MaxStoredJobs + 1
    /\ polls = <<>>
    /\ loads = 0
    /\ observed = {}
    /\ lastOp = "other"
    /\ compression = NoCompression
    /\ PanelInit

\* ------------------------------------------------------------ submission
\* placeholders only for a batch that can start at once
NewPlaceholders_OnlyFirst(batchId, batchSize, isFirstInQueue) ==
    IF isFirstInQueue
    THEN [n \in 1..batchSize |-> Placeholder(batchId, n - 1, "generating")]
    ELSE <<>>

\* placeholders built by handleGenerate for batch batchId
NewPlaceholders(batchId, batchSize, isFirstInQueue) ==
    [n \in 1..batchSize |->
        Placeholder(batchId, n - 1,
                    IF isFirstInQueue THEN "generating" ELSE "queued")]

\* a guard that tests the prompt without trimming it
PromptRejected_NoTrim(prompt) == prompt = <<>>

\* the guard of handleGenerate: !params.prompt.trim()
PromptRejected(prompt) == Trim(prompt) = <<>>

handleGenerate(prompt, batchSize) ==
    /\ user # 0
    /\ lastOp' = IF \A n \in DOMAIN prompt : prompt[n] = " "
                 THEN "handleGenerate(blank)" ELSE "handleGenerate"
    /\ IF PromptRejected(prompt)
       THEN /\ error' = "Please enter a prompt"
            /\ UNCHANGED <<gridItems, queue, depsTouched, batchIdCounter>>
       ELSE /\ batchIdCounter < MaxBatches
            /\ error' = "null"
            /\ batchIdCounter' = batchIdCounter + 1
            /\ gridItems' = NewPlaceholders(batchIdCounter + 1, batchSize,
                                            Len(rendered.queue) = 0) \o gridItems
            /\ queue' = Append(queue, [id |-> batchIdCounter + 1,
                                        batchSize |-> batchSize])
            /\ depsTouched' = TRUE
    /\ UNCHANGED <<compression, panelVars>>
    /\ UNCHANGED <<user, profilePending, isProcessing, rendered,
                   effectPending, runs, store, nextJobId, polls, observed, loads>>

\* ------------------------------------------------------ render and effects
\* a render commits the hook state; the sequencing effect is scheduled when
\* one of its dependencies [queue, isProcessing, processBatch] changed
Render ==
    /\ ~effectPending
    /\ \/ depsTouched
       \/ rendered # [queue |-> queue, isProcessing |-> isProcessing]
    /\ rendered' = [queue |-> queue, isProcessing |-> isProcessing]
    /\ effectPending' = (depsTouched \/ rendered.isProcessing # isProcessing)
    /\ depsTouched' = FALSE
    /\ lastOp' = "other"
    /\ UNCHANGED <<compression, panelVars>>
    /\ UNCHANGED <<user, profilePending, gridItems, queue,
                   isProcessing, error, batchIdCounter, runs, store, nextJobId,
                   polls, observed, loads>>

\* fetchProfile(user.id).then(p => setCurrentUserCreator(...)) : a new
\* currentUserCreator object gives processBatch a new identity
ProfileLoaded ==
    /\ profilePending
    /\ profilePending' = FALSE
    /\ depsTouched' = TRUE
    /\ lastOp' = "other"
    /\ UNCHANGED <<compression, panelVars>>
    /\ UNCHANGED <<user, gridItems, queue, isProcessing, error,
                   rendered, effectPending, batchIdCounter, runs, store,
                   nextJobId, polls, observed, loads>>

\* a fresh invocation of processBatch, suspended in the first POST; attempt
\* and waits belong to the generateImage call of unit i: the loop counter and
\* the backoff delays it has slept so far
NewRun(batch) ==
    [batch |-> batch.id, batchSize |-> batch.batchSize, pc |-> "post", i |-> 0,
     attempt |-> 0, waits |-> <<>>, jobId |-> 0, results |-> <<>>,
     failed |-> FALSE, s |-> 0, saved |-> <<>>]

\* processBatch that does not raise the processing flag
ProcessBatchBegin_NoFlag(batch) ==
    [isProcessing |-> isProcessing,
     queue |-> SelectSeq(queue, LAMBDA b : b.id # batch.id),
     gridItems |-> MarkGenerating(gridItems, batch.id, batch.batchSize)]

\* processBatch that does not take the batch off the queue
ProcessBatchBegin_NoDequeue(batch) ==
    [isProcessing |-> TRUE,
     queue |-> queue,
     gridItems |-> MarkGenerating(gridItems, batch.id, batch.batchSize)]

\* the state updates processBatch enqueues before its first await
ProcessBatchBegin(batch) ==
    [isProcessing |-> TRUE,
     queue |-> SelectSeq(queue, LAMBDA b : b.id # batch.id),
     gridItems |-> MarkGenerating(gridItems, batch.id, batch.batchSize)]

\* processBatch(batch) called from a render whose isProcessing was closureFlag
processBatch(batch, closureFlag) ==
    IF closureFlag
    THEN /\ lastOp' = "other"
         /\ UNCHANGED <<isProcessing, queue, gridItems, depsTouched, runs>>
    ELSE /\ isProcessing' = ProcessBatchBegin(batch).isProcessing
         /\ queue' = ProcessBatchBegin(batch).queue
         /\ gridItems' = ProcessBatchBegin(batch).gridItems
         /\ depsTouched' = TRUE
         /\ runs' = Append(runs, NewRun(batch))
         /\ lastOp' = "other"

\* an effect that takes the newest batch
HeadBatch_Last(q) == q[Len(q)]

\* the batch the sequencing effect hands to processBatch: queue[0]
HeadBatch(q) == q[1]

\* useEffect(() => { if (queue.length > 0 && !isProcessing) processBatch(queue[0]) })
SequencerEffect ==
    /\ effectPending
    /\ effectPending' = FALSE
    /\ IF Len(rendered.queue) > 0 /\ ~rendered.isProcessing
       THEN processBatch(HeadBatch(rendered.queue), rendered.isProcessing)
       ELSE /\ lastOp' = "other"
            /\ UNCHANGED <<isProcessing, queue, gridItems, depsTouched, runs>>
    /\ UNCHANGED <<compression, panelVars>>
    /\ UNCHANGED <<user, profilePending, error, rendered,
                   batchIdCounter, store, nextJobId, polls, observed, loads>>

\* ----------------------------------------------------------- generateImage
\* answers to POST /api/generate, by the branch of generateImage they take
\*   "image_backend" 2xx with url, storagePath and a UUID id
\*   "image_client"  2xx with image data the client has to save
\*   "accepted"      202 with a jobId
\*   "retryable"     429 or 503
\*   "fatal"         anything else: another status, a 2xx answer without
\*                   image data and jobId, or a rejected fetch
PostAnswers ==
    {"image_backend", "image_client", "accepted", "retryable", "fatal"}

\* answers seen by one iteration of the polling loop of generateImage
\*   "timeout"  Date.now() - start > POLL_TIMEOUT_MS after the sleep
\*   "error"    status 500 with an error field
\*   "network"  fetch(statusUrl) rejects
\* a non-terminal answer leaves the loop where it is (no step)
PollAnswers == {"done_backend", "done_client", "error", "timeout", "network"}

\* a timeout reported with the message of an upstream error
MessageOf_NoTimeout(answer) ==
    IF answer = "network" THEN "Failed to fetch" ELSE "upstream error"

\* the message of the Error generateImage throws after `answer`
MessageOf(answer) ==
    CASE answer = "timeout" -> "Generation timed out"
      [] answer = "network" -> "Failed to fetch"
      [] OTHER -> "upstream error"

KindOf(answer) ==
    IF answer \in {"image_backend", "done_backend"} THEN "backend" ELSE "client"

\* ---------------------------------------------------- generateBatchImages
\* what the loop of generateBatchImages does once generateImage of unit
\* r.i settled: ok with an image of kind `kind`, or thrown
\*   "delay"  next unit after the inter-request pause
\*   "throw"  the error propagates to processBatch
\*   "return" the (possibly partial) results are returned
\* a loop that returns what it has after any failure, even nothing
BatchLoopNext_NeverThrow(r, ok) ==
    IF ok
    THEN IF r.i + 1 < r.batchSize THEN "delay" ELSE "return"
    ELSE "return"

\* a loop that fails the whole batch on any failure
BatchLoopNext_ThrowAlways(r, ok) ==
    IF ok
    THEN IF r.i + 1 < r.batchSize THEN "delay" ELSE "return"
    ELSE "throw"

\* a loop that goes on to the next unit after a failed one
BatchLoopNext_SkipFailed(r, ok) ==
    IF r.i + 1 < r.batchSize THEN "delay"
    ELSE IF ok \/ Len(r.results) > 0 THEN "return" ELSE "throw"

BatchLoopNext(r, ok) ==
    IF ok
    THEN IF r.i + 1 < r.batchSize THEN "delay" ELSE "return"
    ELSE IF Len(r.results) = 0 THEN "throw" ELSE "return"

BatchResults(r, ok, kind) ==
    IF ok THEN Append(r.results, kind) ELSE r.results

\* ------------------------------------------------- processBatch, save loop
\* for (const img of newImages): images the backend already saved are pushed
\* without suspension; the loop suspends at the first image the client saves
RECURSIVE SaveLoop(_, _, _, _)
SaveLoop(batchId, results, s, saved) ==
    IF s > Len(results) THEN [s |-> s, saved |-> saved]
    ELSE IF results[s] = "backend"
         THEN SaveLoop(batchId, results, s + 1,
                       Append(saved, ImageItem(batchId, s - 1)))
         ELSE [s |-> s, saved |-> saved]

\* a success path that shows the images only when no unit failed
GridAfterSuccess_DropPartial(items, r, saved) ==
    (IF r.failed THEN <<>> ELSE saved) \o
        WithoutPlaceholders(items, r.batch, r.batchSize)

\* setGridItems(prev => [...saved, ...filtered]) of the success path
GridAfterSuccess(items, r, saved) ==
    saved \o WithoutPlaceholders(items, r.batch, r.batchSize)

\* setError / setGridItems of the catch block
GridAfterFailure(items, r) ==
    WithoutPlaceholders(items, r.batch, r.batchSize)

\* a flag that is reset only when the try block ran to its end
FlagInFinally_NotAfterThrow(thrown) == thrown

\* setIsProcessing(false) of the finally block, after the try block ended
\* normally or the catch block ran
FlagInFinally(thrown) == FALSE

\* a settled invocation; only what the history needs is kept
Finished(r) ==
    [r EXCEPT !.pc = "done", !.i = 0, !.attempt = 0, !.waits = <<>>,
              !.jobId = 0, !.s = 0, !.saved = <<>>,
              !.results = [n \in DOMAIN r.results |-> "image"]]

\* the save loop continues from image s with the items saved so far; it
\* either suspends in the next client save or reaches the end of the try
\* block and the finally block
ContinueSave(k, r, s, saved) ==
    LET p == SaveLoop(r.batch, r.results, s, saved)
    IN  IF p.s > Len(r.results)
        THEN /\ gridItems' = GridAfterSuccess(gridItems, r, p.saved)
             /\ isProcessing' = FlagInFinally(FALSE)
             /\ runs' = [runs EXCEPT ![k] = Finished(r)]
             /\ UNCHANGED error
        ELSE /\ runs' = [runs EXCEPT ![k] = [r EXCEPT !.pc = "save", !.s = p.s,
                                                     !.saved = p.saved,
                                                     !.i = 0, !.attempt = 0,
                                                     !.waits = <<>>,
                                                     !.jobId = 0]]
             /\ UNCHANGED <<gridItems, isProcessing, error>>

\* a loop that issues the next call without the pause
NextUnit_NoDelay(r) ==
    [r EXCEPT !.pc = "post", !.i = r.i + 1, !.attempt = 0, !.waits = <<>>,
              !.jobId = 0]

\* the loop of generateBatchImages goes on to unit i + 1: it first sleeps
\* DELAY_MS, then calls generateImage
NextUnit(r) ==
    [r EXCEPT !.pc = "delay", !.i = r.i + 1, !.attempt = 0, !.waits = <<>>,
              !.jobId = 0]

\* generateImage of unit runs[k].i settled (ok with an image of kind `kind`,
\* or thrown after `answer`); generateBatchImages and processBatch run on to
\* their next suspension point
Settle(k, ok, kind, answer) ==
    LET r    == runs[k]
        next == BatchLoopNext(r, ok)
        msg  == MessageOf(answer)
        r2   == [r EXCEPT !.results = BatchResults(r, ok, kind),
                          !.failed = ~ok]
    IN  CASE next = "delay" ->
                /\ runs' = [runs EXCEPT ![k] = NextUnit(r2)]
                   /\ UNCHANGED <<gridItems, isProcessing, error>>
          [] next = "throw" ->
                /\ error' = msg
                /\ gridItems' = GridAfterFailure(gridItems, r)
                /\ isProcessing' = FlagInFinally(TRUE)
                /\ runs' = [runs EXCEPT ![k] = Finished(r2)]
             [] next = "return" -> ContinueSave(k, r2, 1, <<>>)

\* a save loop that shows only what was persisted
SavedAfter_DropFailed(saved, item, stored) ==
    IF stored THEN Append(saved, item) ELSE saved

\* saved.push(...) behind the client-side save: in the try when the save
\* resolved, in the catch when it rejected
SavedAfter(saved, item, stored) == Append(saved, item)

\* one client-side save (saveImageToSupabase / saveImageMetadataToSupabase)
\* settles: resolved (stored) or rejected
SaveSettled(k, stored) ==
    /\ k \in DOMAIN runs
    /\ runs[k].pc = "save"
    /\ lastOp' = IF stored THEN "saved" ELSE "save failed"
    /\ LET r == runs[k]
           item == ImageItem(r.batch, r.s - 1)
       IN  ContinueSave(k, r, r.s + 1, SavedAfter(r.saved, item, stored))
    /\ UNCHANGED <<compression, panelVars>>
    /\ UNCHANGED <<user, profilePending, queue, rendered, depsTouched,
                   effectPending, batchIdCounter, store, nextJobId, polls,
                   observed, loads>>

\* ----------------------------------------------------- generateImage, steps
\* the store after the 202 branch registered jobId
StoreOnAccepted(v, jobId) == addActiveJob(v, jobId)

\* deregistration on the success path only instead of a finally block
StoreOnPollEnd_SuccessOnly(v, jobId, answer) ==
    IF answer \in {"done_backend", "done_client"}
    THEN removeActiveJob(v, jobId) ELSE v

\* the store after the polling loop of generateImage was left (finally block)
StoreOnPollEnd(v, jobId, answer) == removeActiveJob(v, jobId)

\* a retry decision that retries whatever the failure status is
PostThrows_RetryAll(answer, attempt) == attempt = MAX_RETRIES - 1

\* a retry decision that allows one attempt more
PostThrows_OneMore(answer, attempt) ==
    ~(answer = "retryable") \/ attempt = MAX_RETRIES

\* retry decision after a failure answer: throw lastError or back off
PostThrows(answer, attempt) ==
    ~(answer = "retryable") \/ attempt = MAX_RETRIES - 1

\* const backoffMs = 1000 * Math.pow(2, attempt)
BackoffMs(attempt) == 1000 * 2 ^ attempt

PostResponse(k, answer) ==
    /\ k \in DOMAIN runs
    /\ runs[k].pc = "post"
    /\ lastOp' = answer
    /\ CASE answer \in {"image_backend", "image_client"} ->
                /\ Settle(k, TRUE, KindOf(answer), answer)
                /\ UNCHANGED <<store, nextJobId>>
         [] answer = "accepted" ->
                /\ nextJobId <= MaxStoredJobs + MaxNewJobs
                /\ store' = StoreOnAccepted(store, nextJobId)
                /\ nextJobId' = nextJobId + 1
                /\ runs' = [runs EXCEPT ![k].pc = "poll", ![k].jobId = nextJobId]
                /\ UNCHANGED <<gridItems, isProcessing, error>>
         [] answer \in {"retryable", "fatal"} ->
                /\ IF PostThrows(answer, runs[k].attempt)
                   THEN Settle(k, FALSE, "", answer)
                   ELSE /\ runs' = [runs EXCEPT
                                    ![k].pc = "backoff",
                                    ![k].waits = Append(runs[k].waits,
                                                    BackoffMs(runs[k].attempt))]
                        /\ UNCHANGED <<gridItems, isProcessing, error>>
                /\ UNCHANGED <<store, nextJobId>>
    /\ UNCHANGED <<compression, panelVars>>
    /\ UNCHANGED <<user, profilePending, queue, rendered, depsTouched,
                   effectPending, batchIdCounter, polls, observed, loads>>

\* await sleep(backoffMs) ends: attempt++ and the next POST while
\* attempt < MAX_RETRIES, else the throw behind the for loop
BackoffDone(k) ==
    /\ k \in DOMAIN runs
    /\ runs[k].pc = "backoff"
    /\ IF runs[k].attempt + 1 < MAX_RETRIES
       THEN /\ runs' = [runs EXCEPT ![k].pc = "post",
                                    ![k].attempt = runs[k].attempt + 1]
            /\ UNCHANGED <<gridItems, isProcessing, error>>
       ELSE Settle(k, FALSE, "", "retryable")
    /\ lastOp' = "other"
    /\ UNCHANGED <<compression, panelVars>>
    /\ UNCHANGED <<user, profilePending, queue, rendered, depsTouched,
                   effectPending, batchIdCounter, store, nextJobId, polls,
                   observed, loads>>

\* the DELAY_MS pause of generateBatchImages ends: generateImage of unit i
DelayDone(k) ==
    /\ k \in DOMAIN runs
    /\ runs[k].pc = "delay"
    /\ runs' = [runs EXCEPT ![k].pc = "post"]
    /\ lastOp' = "other"
    /\ UNCHANGED <<compression, panelVars>>
    /\ UNCHANGED <<user, profilePending, gridItems, queue, isProcessing,
                   error, rendered, depsTouched, effectPending, batchIdCounter,
                   store, nextJobId, polls, observed, loads>>

\* one iteration of the polling loop of generateImage that leaves the loop
PollStep(k, answer) ==
    /\ k \in DOMAIN runs
    /\ runs[k].pc = "poll"
    /\ lastOp' = answer
    /\ store' = StoreOnPollEnd(store, runs[k].jobId, answer)
    /\ observed' = IF answer \in {"done_backend", "done_client", "error"}
                   THEN observed \cup {runs[k].jobId} ELSE observed
    /\ Settle(k, answer \in {"done_backend", "done_client"}, KindOf(answer),
              answer)
    /\ UNCHANGED <<compression, panelVars>>
    /\ UNCHANGED <<user, profilePending, queue, rendered, depsTouched,
                   effectPending, batchIdCounter, nextJobId, polls, loads>>

\* ---------------------------------------------------------------- recovery
\* the value onComplete() passes for completedJobId: pollJobUntilComplete
\* calls its callback without arguments
Undefined == 0

\* setGridItems(prev => prev.filter(p => !(placeholder with id
\* `recovery-${completedJobId}`)))
onJobComplete(items, completedJobId) ==
    SelectSeq(items, LAMBDA p : ~(/\ p.type = "placeholder"
                                  /\ p.origin = "recovery"
                                  /\ p.key = completedJobId))

\* body of the recovery effect: one placeholder and one polling loop per id
RecoveryPlaceholders(ids) == [n \in DOMAIN ids |-> RecoveryPlaceholder(ids[n])]

\* a recovery that resumes only the first stored job
RecoveryLoops_FirstOnly(ids) ==
    <<[jobId |-> ids[1], pc |-> "polling", completions |-> 0,
       answer |-> "none"]>>

\* ids.forEach(jobId => pollJobUntilComplete(jobId, onJobComplete))
RecoveryLoops(ids) ==
    [n \in DOMAIN ids |->
        [jobId |-> ids[n], pc |-> "polling", completions |-> 0,
         answer |-> "none"]]

\* useAuth reports a signed-in user: App renders with a new user?.id and the
\* effects keyed on it run (fetchProfile, load of the gallery, recovery of
\* in-flight jobs)
SignIn ==
    /\ user = 0
    /\ user' = 1
    /\ profilePending' = TRUE
    /\ LET ids == getActiveJobIds(store)
       IN  IF Len(ids) = 0
           THEN UNCHANGED <<gridItems, polls>>
           ELSE /\ gridItems' = RecoveryPlaceholders(ids) \o gridItems
                /\ polls' = polls \o RecoveryLoops(ids)
    /\ loads' = loads + 1
    /\ lastOp' = "other"
    /\ UNCHANGED <<compression, panelVars>>
    /\ UNCHANGED <<queue, isProcessing, error, rendered, depsTouched,
                   effectPending, batchIdCounter, runs, store, nextJobId,
                   observed>>

\* answers seen by one iteration of pollJobUntilComplete
\*   "done" / "error"  terminal answers
\*   "timeout"         the while condition fails before the next iteration
\* an iteration that sees a non-terminal answer or a rejected fetch leaves
\* the loop where it is (no step)
RecoveryAnswers == {"done", "error", "timeout"}

\* the same without "error", which a loop treats exactly as "done"
ResumeAnswers == {"done", "timeout"}

\* a loop that a throwing status request ends
PollReturn_ThrowEnds(answer) ==
    CASE answer \in {"done", "error"} -> "true"
      [] answer \in {"timeout", "network"} -> "false"
      [] OTHER -> "polling"

\* what an iteration of pollJobUntilComplete does with its answer: return
\* true on a result or a status 500 with an error, return false when the
\* while condition finds the time used up, go on otherwise (a pending job,
\* a request that threw)
PollReturn(answer) ==
    CASE answer \in {"done", "error"} -> "true"
      [] answer = "timeout" -> "false"
      [] OTHER -> "polling"

\* one iteration of a pollJobUntilComplete loop of the recovery effect;
\* completions counts its calls of onComplete, answer is the last answer it
\* received
RecoveryPoll(n, answer) ==
    /\ n \in DOMAIN polls
    /\ polls[n].pc = "polling"
    /\ CASE PollReturn(answer) = "true" ->
                /\ store' = removeActiveJob(store, polls[n].jobId)
                /\ gridItems' = onJobComplete(gridItems, Undefined)
                /\ loads' = IF user # 0 THEN loads + 1 ELSE loads
                /\ polls' = [polls EXCEPT ![n].pc = "true",
                                          ![n].completions = @ + 1,
                                          ![n].answer = answer]
                /\ observed' = observed \cup {polls[n].jobId}
         [] PollReturn(answer) = "false" ->
                /\ polls' = [polls EXCEPT ![n].pc = "false",
                                          ![n].answer = answer]
                /\ UNCHANGED <<store, gridItems, observed, loads>>
         [] OTHER ->
                /\ polls' = [polls EXCEPT ![n].answer = answer]
                /\ UNCHANGED <<store, gridItems, observed, loads>>
    /\ lastOp' = "other"
    /\ UNCHANGED <<compression, panelVars>>
    /\ UNCHANGED <<user, profilePending, queue,
                   isProcessing, error, rendered, depsTouched, effectPending,
                   batchIdCounter, runs, nextJobId>>

\* useAuth reports that the user signed out: App stays mounted and keeps its
\* hook state; the effects keyed on user?.id run and return at their guard
SignOut ==
    /\ user # 0
    /\ Len(polls) < MaxLoops
    /\ loads < MaxLoops
    /\ user' = 0
    /\ lastOp' = "other"
    /\ UNCHANGED <<compression, panelVars>>
    /\ UNCHANGED <<profilePending, gridItems, queue, isProcessing, error,
                   rendered, depsTouched, effectPending, batchIdCounter, runs,
                   store, nextJobId, polls, loads, observed>>

\* a reload that keeps the queue and the display list
Reload_KeepQueue ==
    /\ user' = 0
    /\ profilePending' = FALSE
    /\ isProcessing' = FALSE
    /\ error' = "null"
    /\ rendered' = [queue |-> <<>>, isProcessing |-> FALSE]
    /\ depsTouched' = TRUE
    /\ effectPending' = FALSE
    /\ batchIdCounter' = 0
    /\ runs' = <<>>
    /\ polls' = <<>>
    /\ loads' = 0
    /\ lastOp' = "reload"
    /\ UNCHANGED <<gridItems, queue, compression, panelVars, store, nextJobId,
                   observed>>

\* the page is reloaded: every pending callback of the old page is dropped
\* (also the finally blocks of suspended calls), module and hook state start
\* over, and localStorage and the server keep what they hold
Reload ==
    /\ user' = 0
    /\ profilePending' = FALSE
    /\ gridItems' = <<>>
    /\ queue' = <<>>
    /\ isProcessing' = FALSE
    /\ error' = "null"
    /\ rendered' = [queue |-> <<>>, isProcessing |-> FALSE]
    /\ depsTouched' = FALSE
    /\ effectPending' = FALSE
    /\ batchIdCounter' = 0
    /\ runs' = <<>>
    /\ polls' = <<>>
    /\ loads' = 0
    /\ lastOp' = IF queue = <<>> THEN "reload" ELSE "reload, queue dropped"
    /\ compression' = NoCompression
    /\ referenceImages' = <<>>
    /\ referenceImagesBase64' = <<>>
    /\ renderedRefs' = [refs |-> 0, base64 |-> <<>>]
    /\ pending' = <<>>
    /\ attached' = <<>>
    /\ UNCHANGED <<store, nextJobId, observed>>

\* ------------------------------------------------------------ gallery load
\* an image row fetched from the BaaS, as a grid item
GalleryItem ==
    [type |-> "image", origin |-> "gallery", key |-> 0, idx |-> 0,
     status |-> "image"]

\* lists fetchImagesFromSupabase may resolve to
GalleryLists == {<<>>, <<GalleryItem>>}

\* a load that replaces the whole display list by the fetched rows
GridAfterLoad_DropAll(items, newImages) == newImages

\* setGridItems(prev => [...placeholders of prev, ...newImages])
GridAfterLoad(items, newImages) ==
    SelectSeq(items, LAMBDA item : item.type = "placeholder") \o newImages

\* a call of load() settles: with the fetched list, or rejected
LoadDone(ok, newImages) ==
    /\ loads > 0
    /\ loads' = loads - 1
    /\ IF ok
       THEN /\ gridItems' = GridAfterLoad(gridItems, newImages)
            /\ UNCHANGED error
       ELSE /\ error' = "Failed to load images"
            /\ UNCHANGED gridItems
    /\ lastOp' = "other"
    /\ UNCHANGED <<compression, panelVars>>
    /\ UNCHANGED <<user, profilePending, queue, isProcessing, rendered,
                   depsTouched, effectPending, batchIdCounter, runs, store,
                   nextJobId, polls, observed>>

\* ------------------------------------------------------------ specification
\* the smallest and the largest batch the control panel lets through
BatchSizes == {1, MaxBatchSize}

\* answers of a server that settles every POST in the request itself
DirectAnswers == {"image_backend", "fatal"}

\* the Sequencer under every user and React event, with a server that settles
\* each POST directly; the session starts with an empty durable store
NextQueue ==
    \/ SignIn
    \/ ProfileLoaded
    \/ \E p \in Prompts, n \in BatchSizes : handleGenerate(p, n)
    \/ Render
    \/ SequencerEffect
    \/ \E k \in DOMAIN runs, a \in DirectAnswers : PostResponse(k, a)
    \/ \E k \in DOMAIN runs : DelayDone(k)

SpecQueue == Init /\ [][NextQueue]_vars

\* batch execution under every answer of the server and of the BaaS, for
\* submissions with a non-blank prompt
Next ==
    \/ SignIn
    \/ \E n \in BatchSizes : handleGenerate(<<"a">>, n)
    \/ Render
    \/ SequencerEffect
    \/ \E k \in DOMAIN runs, a \in PostAnswers : PostResponse(k, a)
    \/ \E k \in DOMAIN runs : BackoffDone(k)
    \/ \E k \in DOMAIN runs : DelayDone(k)
    \/ \E k \in DOMAIN runs, a \in PollAnswers : PollStep(k, a)
    \/ \E k \in DOMAIN runs, stored \in BOOLEAN : SaveSettled(k, stored)

Spec == Init /\ [][Next]_vars

\* the same mount with job ids left in the durable store by an earlier
\* session of the page
InitJobs ==
    \E n \in 1..MaxStoredJobs :
        /\ user = 0
        /\ profilePending = FALSE
        /\ gridItems = <<>>
        /\ queue = <<>>
        /\ isProcessing = FALSE
        /\ error = "null"
        /\ rendered = [queue |-> <<>>, isProcessing |-> FALSE]
        /\ depsTouched = FALSE
        /\ effectPending = FALSE
        /\ batchIdCounter = 0
        /\ runs = <<>>
        /\ store = StoreList([k \in 1..n |-> k])
        /\ nextJobId = MaxStoredJobs + 1
        /\ polls = <<>>
        /\ loads = 0
        /\ observed = {}
        /\ lastOp = "other"
        /\ compression = NoCompression
        /\ PanelInit

\* answers of a server that settles a POST directly or accepts it as a job,
\* and whose images need no client-side save
JobPostAnswers == {"image_backend", "accepted", "fatal"}

JobPollAnswers == {"done_backend", "error", "timeout", "network"}

\* the job protocol: generation calls of the Sequencer that turn into jobs,
\* next to the polling loops of the recovered jobs
NextJobs ==
    \/ SignIn
    \/ \E n \in BatchSizes : handleGenerate(<<"a">>, n)
    \/ Render
    \/ SequencerEffect
    \/ \E k \in DOMAIN runs, a \in JobPostAnswers : PostResponse(k, a)
    \/ \E k \in DOMAIN runs : DelayDone(k)
    \/ \E k \in DOMAIN runs, a \in JobPollAnswers : PollStep(k, a)
    \/ \E n \in DOMAIN polls, a \in ResumeAnswers : RecoveryPoll(n, a)

SpecJobs == InitJobs /\ [][NextJobs]_vars

\* answers of a server that accepts every POST as a job
AcceptAnswers == {"accepted"}

\* recovery over one page session with sign-outs and sign-ins, gallery loads
\* and the Sequencer polling jobs of its own
NextRecovery ==
    \/ SignIn
    \/ SignOut
    \/ \E n \in DOMAIN polls, a \in ResumeAnswers : RecoveryPoll(n, a)
    \/ \E ok \in BOOLEAN, l \in GalleryLists : LoadDone(ok, l)
    \/ handleGenerate(<<"a">>, 1)
    \/ Render
    \/ SequencerEffect
    \/ \E k \in DOMAIN runs, a \in AcceptAnswers : PostResponse(k, a)
    \/ \E k \in DOMAIN runs, a \in JobPollAnswers : PollStep(k, a)

SpecRecovery == InitJobs /\ [][NextRecovery]_vars

\* reloads of the page while jobs of the Sequencer and recovered jobs are
\* polled; the user stays signed in across the reloads
NextReload ==
    \/ SignIn
    \/ Reload
    \/ \E n \in DOMAIN polls, a \in ResumeAnswers : RecoveryPoll(n, a)
    \/ \E ok \in BOOLEAN, l \in GalleryLists : LoadDone(ok, l)
    \/ handleGenerate(<<"a">>, 1)
    \/ Render
    \/ SequencerEffect
    \/ \E k \in DOMAIN runs, a \in AcceptAnswers : PostResponse(k, a)
    \/ \E k \in DOMAIN runs, a \in JobPollAnswers : PollStep(k, a)

SpecReload == InitJobs /\ [][NextReload]_vars

\* ---------------------------------------------- the durable store on its own
\* job ids passed to the store operations
StoreIds == 1..(MaxStoredJobs + MaxNewJobs + 2)

\* what a page session can find under the key: nothing, a list written by an
\* earlier session, or a value JSON.parse rejects
InitStore ==
    /\ user = 0
    /\ profilePending = FALSE
    /\ gridItems = <<>>
    /\ queue = <<>>
    /\ isProcessing = FALSE
    /\ error = "null"
    /\ rendered = [queue |-> <<>>, isProcessing |-> FALSE]
    /\ depsTouched = FALSE
    /\ effectPending = FALSE
    /\ batchIdCounter = 0
    /\ runs = <<>>
    /\ nextJobId = MaxStoredJobs + 1
    /\ polls = <<>>
    /\ loads = 0
    /\ observed = {}
    /\ lastOp = "other"
    /\ compression = NoCompression
    /\ PanelInit
    /\ store \in {[kind |-> "missing", ids |-> <<>>],
                  [kind |-> "corrupt", ids |-> <<>>],
                  StoreList(<<>>)}

\* a polling loop calls addActiveJob(jobId)
AddJob(jobId) ==
    /\ store' = addActiveJob(store, jobId)
    /\ lastOp' = "addActiveJob " \o ToString(jobId)
    /\ UNCHANGED <<compression, panelVars>>
    /\ UNCHANGED <<user, profilePending, gridItems, queue, isProcessing, error,
                   rendered, depsTouched, effectPending, batchIdCounter, runs,
                   nextJobId, polls, loads, observed>>

\* a polling loop calls removeActiveJob(jobId)
RemoveJob(jobId) ==
    /\ store' = removeActiveJob(store, jobId)
    /\ lastOp' = "removeActiveJob " \o ToString(jobId)
    /\ UNCHANGED <<compression, panelVars>>
    /\ UNCHANGED <<user, profilePending, gridItems, queue, isProcessing, error,
                   rendered, depsTouched, effectPending, batchIdCounter, runs,
                   nextJobId, polls, loads, observed>>

NextStore ==
    \/ \E j \in StoreIds : AddJob(j)
    \/ \E j \in StoreIds : RemoveJob(j)

SpecStore == InitStore /\ [][NextStore]_vars

\* the store operations in every order, from the store of a fresh profile
SpecLoops == Init /\ [][NextStore]_vars

\* the Sequencer next to gallery loads, with a server that settles every POST
\* directly
NextLive ==
    \/ SignIn
    \/ \E n \in BatchSizes : handleGenerate(<<"a">>, n)
    \/ Render
    \/ SequencerEffect
    \/ \E k \in DOMAIN runs, a \in DirectAnswers : PostResponse(k, a)
    \/ \E k \in DOMAIN runs : DelayDone(k)
    \/ \E ok \in BOOLEAN, l \in GalleryLists : LoadDone(ok, l)

\* React commits a pending render and runs its effects; timers fire; every
\* POST is answered
FairLive ==
    /\ WF_vars(Render)
    /\ WF_vars(SequencerEffect)
    /\ WF_vars(\E k \in DOMAIN runs, a \in DirectAnswers : PostResponse(k, a))
    /\ WF_vars(\E k \in DOMAIN runs : DelayDone(k))

SpecLive == Init /\ [][NextLive]_vars /\ FairLive

\* ------------------------------------- reference-image compression
\* The quality is a JavaScript number, an IEEE-754 double.  A double in
\* [2^-8, 1) is held exactly, as an integer count of 2^-60, in three limbs
\* of 20 bits, most significant first.
LimbBase == 2 ^ 20

\* position of the leading one bit of a limb
MSB(n) == CHOOSE e \in 0..19 : 2 ^ e <= n /\ n < 2 ^ (e + 1)

\* carries out of the low and the middle limb
Carry(x) ==
    LET lo  == x[3] % LimbBase
        mid == (x[2] + x[3] \div LimbBase) % LimbBase
        hi  == x[1] + (x[2] + x[3] \div LimbBase) \div LimbBase
    IN  <<hi, mid, lo>>

\* round to 53 significant bits, to nearest, ties to even; sticky: the exact
\* value lies above x by less than 2^-60
RoundDouble(x, sticky) ==
    LET ulp  == IF x[1] < 2 ^ 12 THEN 1 ELSE 2 ^ (MSB(x[1]) - 12)
        r    == x[3] % ulp
        down == x[3] - r
        up   == \/ 2 * r > ulp
                \/ /\ 2 * r = ulp
                   /\ sticky \/ (down \div ulp) % 2 = 1
    IN  Carry(<<x[1], x[2], IF up THEN down + ulp ELSE down>>)

\* the double a decimal literal num/den denotes (0 < num < den < 2^11)
Literal(num, den) ==
    LET hi  == (num * LimbBase) \div den
        r1  == (num * LimbBase) % den
        mid == (r1 * LimbBase) \div den
        r2  == (r1 * LimbBase) % den
        lo  == (r2 * LimbBase) \div den
        r3  == (r2 * LimbBase) % den
    IN  RoundDouble(<<hi, mid, lo>>, r3 # 0)

\* a > b on doubles
Greater(a, b) ==
    \/ a[1] > b[1]
    \/ a[1] = b[1] /\ a[2] > b[2]
    \/ a[1] = b[1] /\ a[2] = b[2] /\ a[3] > b[3]

\* a - b on doubles, a >= b: the exact difference, rounded
Minus(a, b) ==
    LET bl  == IF a[3] < b[3] THEN 1 ELSE 0
        bm  == IF a[2] - bl < b[2] THEN 1 ELSE 0
    IN  RoundDouble(<<a[1] - b[1] - bm,
                      a[2] - bl - b[2] + bm * LimbBase,
                      a[3] - b[3] + bl * LimbBase>>, FALSE)

\* The repository holds two versions of compressImageForReference:
\* version 1 = part_003 lines 197-253, version 2 = part_003 lines 267-323.
Versions == {1, 2}

JPEG_QUALITY(v) == IF v = 1 THEN Literal(7, 10) ELSE Literal(55, 100)

MAX_SIZE_CHARS(v) == IF v = 1 THEN 450000 ELSE 280000

\* the literal of the loop condition `quality > ...`
QualityFloor(v) == IF v = 1 THEN Literal(2, 10) ELSE Literal(15, 100)

\* the literal of `quality -= ...`
QualityStep(v) == IF v = 1 THEN Literal(1, 10) ELSE Literal(8, 100)

\* canvas.toDataURL('image/jpeg', quality): the lengths the string may have
DataUrlLengths(v) ==
    {MAX_SIZE_CHARS(v) - 1, MAX_SIZE_CHARS(v), MAX_SIZE_CHARS(v) + 1,
     2 * MAX_SIZE_CHARS(v)}

\* dataUrl = tryEncode() with the current quality
tryEncode(c, quality, len) ==
    [c EXCEPT !.quality = quality, !.dataUrl = len,
              !.encoded = Append(@, [quality |-> quality, length |-> len])]

\* compressImageForReference(file) up to its first encoding: img.onerror
\* rejects, a missing 2d context rejects, else the image is drawn and encoded
\* at JPEG_QUALITY
CompressStart(v, loaded, ctx, len) ==
    /\ compression.pc = "idle"
    /\ compression' =
         IF ~loaded \/ ~ctx
         THEN [compression EXCEPT !.pc = "rejected", !.version = v]
         ELSE tryEncode([compression EXCEPT !.pc = "loop", !.version = v],
                        JPEG_QUALITY(v), len)
    /\ UNCHANGED <<user, profilePending, gridItems, queue, isProcessing, error,
                   rendered, depsTouched, effectPending, batchIdCounter, runs,
                   store, nextJobId, polls, loads, observed, lastOp, panelVars>>

\* one test of the while condition: a further encoding, or resolve(dataUrl)
CompressLoop(len) ==
    /\ compression.pc = "loop"
    /\ compression' =
         IF /\ compression.dataUrl > MAX_SIZE_CHARS(compression.version)
            /\ Greater(compression.quality, QualityFloor(compression.version))
         THEN tryEncode(compression,
                        Minus(compression.quality,
                              QualityStep(compression.version)), len)
         ELSE [compression EXCEPT !.pc = "resolved"]
    /\ UNCHANGED <<user, profilePending, gridItems, queue, isProcessing, error,
                   rendered, depsTouched, effectPending, batchIdCounter, runs,
                   store, nextJobId, polls, loads, observed, lastOp, panelVars>>

NextCompress ==
    \/ \E v \in Versions, loaded \in BOOLEAN, ctx \in BOOLEAN :
          \E len \in DataUrlLengths(v) : CompressStart(v, loaded, ctx, len)
    \/ \E len \in DataUrlLengths(compression.version) : CompressLoop(len)

SpecCompress == Init /\ [][NextCompress]_vars

\* ------------------------------------------------ the recovery loops alone
\* every answer a status request of pollJobUntilComplete can get
PollLoopAnswers == RecoveryAnswers \cup {"pending", "network"}

NextPoll ==
    \/ SignIn
    \/ SignOut
    \/ \E n \in DOMAIN polls, a \in PollLoopAnswers : RecoveryPoll(n, a)
    \/ \E ok \in BOOLEAN, l \in GalleryLists : LoadDone(ok, l)

SpecPoll == InitJobs /\ [][NextPoll]_vars

\* ------------------------------------- ControlPanel: reference images
\* n copies of x
Copies(n, x) == [m \in 1..n |-> x]

\* list.filter((_, i) => i !== index)
WithoutIndex(list, index) ==
    [m \in 1..(Len(list) - (IF index < Len(list) THEN 1 ELSE 0)) |->
        IF m <= index THEN list[m] ELSE list[m + 1]]

\* const [removed] = next.splice(fromIndex, 1); next.splice(toIndex, 0, removed)
\* : past the end splice removes nothing and removed is undefined, which the
\* second splice inserts all the same
Moved(list, fromIndex, toIndex) ==
    LET removed == IF fromIndex < Len(list) THEN list[fromIndex + 1]
                   ELSE "undefined"
        next    == WithoutIndex(list, fromIndex)
        at      == IF toIndex < Len(next) THEN toIndex ELSE Len(next)
    IN  SubSeq(next, 1, at) \o <<removed>> \o SubSeq(next, at + 1, Len(next))

\* prev => prev.length >= MAX_REFERENCE_IMAGES ? prev : [...prev, x]
AppendedIfRoom(prev, x) ==
    IF Len(prev) >= MAX_REFERENCE_IMAGES THEN prev ELSE Append(prev, x)

\* the last render shows the current state: React has flushed the updates of
\* an event before the next user event is dispatched
PanelRendered ==
    renderedRefs = [refs |-> Len(referenceImages),
                    base64 |-> referenceImagesBase64]

\* file counts of an upload, a drop or a paste
FileCounts == {1, MAX_REFERENCE_IMAGES}

\* addImagesFromFiles(files) with n image files, up to the await
addImagesFromFiles(n) ==
    /\ PanelRendered
    /\ Len(pending) < MaxUploads
    /\ LET remaining == MAX_REFERENCE_IMAGES - renderedRefs.refs
           toAdd     == IF n < remaining THEN n ELSE remaining
       IN  /\ remaining > 0
           /\ referenceImages' = referenceImages \o Copies(toAdd, "url")
           /\ pending' = Append(pending, [kind |-> "files", n |-> toAdd])
    /\ UNCHANGED <<referenceImagesBase64, renderedRefs, attached>>
    /\ UNCHANGED <<user, profilePending, gridItems, queue, isProcessing, error,
                   rendered, depsTouched, effectPending, batchIdCounter, runs,
                   store, nextJobId, polls, loads, observed, lastOp, compression>>

\* Promise.all of the compressions of addImagesFromFiles settles
FilesCompressed(k, ok) ==
    /\ k \in DOMAIN pending
    /\ pending[k].kind = "files"
    /\ pending[k].n > 0
    /\ referenceImagesBase64' =
         IF ok THEN referenceImagesBase64 \o Copies(pending[k].n, "jpeg")
         ELSE referenceImagesBase64
    /\ pending' = [pending EXCEPT ![k].n = 0]
    /\ UNCHANGED <<referenceImages, renderedRefs, attached>>
    /\ UNCHANGED <<user, profilePending, gridItems, queue, isProcessing, error,
                   rendered, depsTouched, effectPending, batchIdCounter, runs,
                   store, nextJobId, polls, loads, observed, lastOp, compression>>

\* the effects on referenceImageUrlToInject (one URL) and on
\* referenceImageUrlsToInject (several): compressImageFromUrl is started
InjectUrls(kind, n) ==
    /\ Len(pending) < MaxUploads
    /\ pending' = Append(pending, [kind |-> kind, n |-> n])
    /\ UNCHANGED <<referenceImages, referenceImagesBase64, renderedRefs,
                   attached>>
    /\ UNCHANGED <<user, profilePending, gridItems, queue, isProcessing, error,
                   rendered, depsTouched, effectPending, batchIdCounter, runs,
                   store, nextJobId, polls, loads, observed, lastOp, compression>>

\* compressImageFromUrl of an injection settles: a resolved one appends the
\* URL and its compressed form, each list checking its own length; the loop
\* over several URLs goes on to the next one either way
UrlCompressed(k, ok) ==
    /\ k \in DOMAIN pending
    /\ pending[k].kind \in {"url", "urls"}
    /\ pending[k].n > 0
    /\ IF ok
       THEN /\ referenceImages' = AppendedIfRoom(referenceImages, "url")
            /\ referenceImagesBase64' =
                 AppendedIfRoom(referenceImagesBase64, "jpeg")
       ELSE UNCHANGED <<referenceImages, referenceImagesBase64>>
    /\ pending' = [pending EXCEPT ![k].n = @ - 1]
    /\ UNCHANGED <<renderedRefs, attached>>
    /\ UNCHANGED <<user, profilePending, gridItems, queue, isProcessing, error,
                   rendered, depsTouched, effectPending, batchIdCounter, runs,
                   store, nextJobId, polls, loads, observed, lastOp, compression>>

\* removeReferenceImage(index), index of a rendered thumbnail
removeReferenceImage(index) ==
    /\ PanelRendered
    /\ index < renderedRefs.refs
    /\ referenceImages' = WithoutIndex(referenceImages, index)
    /\ referenceImagesBase64' = WithoutIndex(referenceImagesBase64, index)
    /\ UNCHANGED <<renderedRefs, pending, attached>>
    /\ UNCHANGED <<user, profilePending, gridItems, queue, isProcessing, error,
                   rendered, depsTouched, effectPending, batchIdCounter, runs,
                   store, nextJobId, polls, loads, observed, lastOp, compression>>

\* reorderReferenceImages(fromIndex, toIndex), a thumbnail dropped on another
reorderReferenceImages(fromIndex, toIndex) ==
    /\ PanelRendered
    /\ fromIndex < renderedRefs.refs
    /\ toIndex < renderedRefs.refs
    /\ fromIndex # toIndex
    /\ referenceImages' = Moved(referenceImages, fromIndex, toIndex)
    /\ referenceImagesBase64' = Moved(referenceImagesBase64, fromIndex, toIndex)
    /\ UNCHANGED <<renderedRefs, pending, attached>>
    /\ UNCHANGED <<user, profilePending, gridItems, queue, isProcessing, error,
                   rendered, depsTouched, effectPending, batchIdCounter, runs,
                   store, nextJobId, polls, loads, observed, lastOp, compression>>

\* the ControlPanel renders with the state the updates have produced
PanelRender ==
    /\ ~PanelRendered
    /\ renderedRefs' = [refs |-> Len(referenceImages),
                        base64 |-> referenceImagesBase64]
    /\ UNCHANGED <<referenceImages, referenceImagesBase64, pending, attached>>
    /\ UNCHANGED <<user, profilePending, gridItems, queue, isProcessing, error,
                   rendered, depsTouched, effectPending, batchIdCounter, runs,
                   store, nextJobId, polls, loads, observed, lastOp, compression>>

\* handleGenerateClick: the rendered referenceImagesBase64, if not empty,
\* goes into the request, entry by entry as an uploaded URL or, when the
\* upload fails, as it is
handleGenerateClick ==
    /\ PanelRendered
    /\ attached' = renderedRefs.base64
    /\ UNCHANGED <<referenceImages, referenceImagesBase64, renderedRefs,
                   pending>>
    /\ UNCHANGED <<user, profilePending, gridItems, queue, isProcessing, error,
                   rendered, depsTouched, effectPending, batchIdCounter, runs,
                   store, nextJobId, polls, loads, observed, lastOp, compression>>

\* the thumbnails a drag starts from and ends on, and the one removed: the
\* first and the last
Indices == {0, MAX_REFERENCE_IMAGES - 1}

NextPanel ==
    \/ \E n \in FileCounts : addImagesFromFiles(n)
    \/ \E k \in DOMAIN pending, ok \in BOOLEAN : FilesCompressed(k, ok)
    \/ InjectUrls("url", 1)
    \/ InjectUrls("urls", 2)
    \/ \E k \in DOMAIN pending, ok \in BOOLEAN : UrlCompressed(k, ok)
    \/ \E index \in Indices : removeReferenceImage(index)
    \/ \E fromIndex \in Indices, toIndex \in Indices :
          reorderReferenceImages(fromIndex, toIndex)
    \/ PanelRender
    \/ handleGenerateClick

SpecPanel == Init /\ [][NextPanel]_vars

\* ------------------------------ batches beside the jobs of an earlier page
NextFrame ==
    \/ SignIn
    \/ \E n \in BatchSizes : handleGenerate(<<"a">>, n)
    \/ Render
    \/ SequencerEffect
    \/ \E k \in DOMAIN runs, a \in DirectAnswers : PostResponse(k, a)
    \/ \E k \in DOMAIN runs : DelayDone(k)

SpecFrame == InitJobs /\ [][NextFrame]_vars

\* ------------------------------------------------------------------ claims
\* invocations of processBatch between setIsProcessing(true) and the finally
InFlight == {k \in DOMAIN runs : runs[k].pc # "done"}

StartsOf(b) == Cardinality({k \in DOMAIN runs : runs[k].batch = b})

QueuedCount(b) == Cardinality({n \in DOMAIN queue : queue[n].id = b})

PlaceholderCount(items, b) ==
    Cardinality({n \in DOMAIN items : /\ items[n].type = "placeholder"
                                      /\ items[n].origin = "batch"
                                      /\ items[n].key = b})

ImageCount(items, b) ==
    Cardinality({n \in DOMAIN items : /\ items[n].type = "image"
                                      /\ items[n].key = b})

\* C1: in every reachable state at most one batch is in flight, whatever the
\* order of submissions, completions and re-firings of the sequencing effect
C1_AtMostOneInFlight == Cardinality(InFlight) <= 1

\* a batch is in flight, another one waits in the rendered queue and the
\* sequencing effect is about to fire again
C1_Witness ==
    /\ Cardinality(InFlight) = 1
    /\ Len(rendered.queue) > 0
    /\ effectPending

\* C2: every submitted batch is either still in the queue or was started
\* exactly once, never both and never neither
C2_ConsumedExactlyOnce ==
    \A b \in 1..batchIdCounter :
        /\ StartsOf(b) <= 1
        /\ QueuedCount(b) <= 1
        /\ StartsOf(b) + QueuedCount(b) = 1

\* one batch was consumed and finished while a later one is still queued
C2_Witness ==
    /\ \E k \in DOMAIN runs : runs[k].pc = "done"
    /\ Len(queue) > 0

\* C3: batches run in submission order: when a batch has started, every batch
\* submitted before it has started and has run to completion
C3_FifoOrder ==
    \A a, b \in 1..batchIdCounter :
        (a < b /\ StartsOf(b) > 0) =>
            \E k \in DOMAIN runs : runs[k].batch = a /\ runs[k].pc = "done"

\* a second batch runs after the first one finished
C3_Witness ==
    /\ Len(runs) >= 2
    /\ runs[1].pc = "done"
    /\ runs[2].pc # "done"

\* C4: a submission with a non-blank prompt and batch size N puts exactly N
\* placeholders of the new batch in front of the display list in the same
\* step, whatever the Sequencer is doing
C4_SubmissionAddsPlaceholders ==
    [][(lastOp' = "handleGenerate" /\ batchIdCounter' # batchIdCounter) =>
        LET b == batchIdCounter'
            n == queue'[Len(queue')].batchSize
        IN  /\ queue'[Len(queue')].id = b
            /\ Len(gridItems') = Len(gridItems) + n
            /\ PlaceholderCount(gridItems', b) = n
            /\ \A m \in 1..n : IsPlaceholderOf(gridItems'[m], b, n)
            /\ SubSeq(gridItems', n + 1, Len(gridItems')) = gridItems]_vars

\* a submission was made while another batch is in flight and its
\* placeholders are in the list
C4_Witness ==
    /\ lastOp = "handleGenerate"
    /\ Cardinality(InFlight) = 1
    /\ Len(queue) > 0
    /\ PlaceholderCount(gridItems, batchIdCounter) = queue[Len(queue)].batchSize

\* C5: a submission with an empty or blank prompt sets the error message and
\* changes nothing else: no batch, no placeholder, no generation call
C5_BlankPromptRejected ==
    [][lastOp' = "handleGenerate(blank)" =>
        /\ error' = "Please enter a prompt"
        /\ UNCHANGED <<queue, gridItems, runs, batchIdCounter, isProcessing,
                       store, nextJobId>>]_vars

\* a blank prompt was rejected while work was queued
C5_Witness ==
    /\ lastOp = "handleGenerate(blank)"
    /\ error = "Please enter a prompt"
    /\ Len(queue) > 0

\* steps of invocation k of processBatch, read off a pair of states
FailStep(k) == runs[k].pc \in {"post", "poll"} /\ runs'[k].failed

FatalStep(k) == FailStep(k) /\ lastOp' \in {"fatal", "error"}

CompleteStep(k) == runs[k].pc # "done" /\ runs'[k].pc = "done"

PollEnd(k) == runs[k].pc = "poll" /\ runs'[k].pc # "poll"

\* C6: when a generation call fails while its batch has no result yet, the
\* batch fails as a whole in that step: the error is surfaced, no asset of
\* the batch is in the display list and all its placeholders are gone
C6_FailureWithoutResults ==
    [][\A k \in DOMAIN runs :
        (FailStep(k) /\ Len(runs[k].results) = 0) =>
            /\ error' # "null"
            /\ error' = MessageOf(lastOp')
            /\ runs'[k].pc = "done"
            /\ ~isProcessing'
            /\ ImageCount(gridItems', runs[k].batch) = 0
            /\ PlaceholderCount(gridItems', runs[k].batch) = 0
            /\ Len(gridItems') =
                   Len(gridItems) - PlaceholderCount(gridItems, runs[k].batch)]_vars

\* a batch of size 1 ended with its only unit failed and the error shown
C6_Witness ==
    \E k \in DOMAIN runs :
        /\ runs[k].pc = "done"
        /\ runs[k].failed
        /\ runs[k].batchSize = 1
        /\ Len(runs[k].results) = 0
        /\ error = "upstream error"
        /\ lastOp = "fatal"

\* C7: in a batch of size N > 1 where k >= 1 units succeeded before a unit
\* failed, neither the failure nor the completion of the batch sets the
\* error, and completion adds exactly k assets of the batch
C7_PartialResults ==
    [][\A k \in DOMAIN runs :
        /\ (FailStep(k) /\ Len(runs[k].results) >= 1) =>
              /\ error' = error
              /\ Len(runs'[k].results) = Len(runs[k].results)
        /\ (CompleteStep(k) /\ runs'[k].failed /\ Len(runs'[k].results) >= 1) =>
              /\ error' = error
              /\ ImageCount(gridItems, runs[k].batch) = 0
              /\ ImageCount(gridItems', runs[k].batch) = Len(runs'[k].results)
              /\ Len(runs'[k].results) < runs[k].batchSize
              /\ PlaceholderCount(gridItems', runs[k].batch) = 0]_vars

\* a batch of the largest size ended with one asset after its second unit
\* failed, and no error is shown
C7_Witness ==
    \E k \in DOMAIN runs :
        /\ runs[k].pc = "done"
        /\ runs[k].failed
        /\ runs[k].batchSize = MaxBatchSize
        /\ Len(runs[k].results) = 1
        /\ ImageCount(gridItems, runs[k].batch) = 1
        /\ error = "null"

\* C8 as stated: a fatal upstream error of a unit is surfaced in that step
\* and the earlier results of the batch are kept
C8_FatalSurfacedAndKept ==
    [][\A k \in DOMAIN runs :
        FatalStep(k) =>
            /\ error' = "upstream error"
            /\ Len(runs'[k].results) = Len(runs[k].results)
            /\ runs'[k].pc = "done" =>
                  ImageCount(gridItems', runs[k].batch) = Len(runs[k].results)]_vars

\* C8 amended: a fatal upstream error of a unit aborts the batch and keeps
\* its earlier results; the error is surfaced when the batch had no result
\* yet and is left unreported when it had
C8_FatalAbortsAndKeeps ==
    [][\A k \in DOMAIN runs :
        /\ FatalStep(k) =>
              /\ runs'[k].pc \in {"save", "done"}
              /\ Len(runs'[k].results) = Len(runs[k].results)
              /\ IF Len(runs[k].results) = 0
                 THEN error' = "upstream error"
                 ELSE error' = error
              /\ runs'[k].pc = "done" =>
                    ImageCount(gridItems', runs[k].batch) = Len(runs[k].results)
        /\ (CompleteStep(k) /\ runs'[k].failed) =>
              ImageCount(gridItems', runs[k].batch) = Len(runs'[k].results)]_vars

\* a fatal answer just ended a batch that keeps its earlier result, and no
\* error is shown
C8_Witness ==
    /\ lastOp \in {"fatal", "error"}
    /\ error = "null"
    /\ \E k \in DOMAIN runs :
          /\ runs[k].pc = "done"
          /\ runs[k].failed
          /\ Len(runs[k].results) >= 1
          /\ ImageCount(gridItems, runs[k].batch) = Len(runs[k].results)

\* job ids handed out in this session whose generateImage call is over
ReturnedJobs ==
    {j \in (MaxStoredJobs + 1)..(nextJobId - 1) :
        ~\E k \in DOMAIN runs : runs[k].pc = "poll" /\ runs[k].jobId = j}

\* C9: the id of a 202 answer is in the durable set when polling starts, it
\* is out of the set in the step that ends the polling by any outcome, and
\* no id of a call that returned or threw is in the set
C9_RegisteredWhilePolling ==
    [][/\ nextJobId' # nextJobId =>
              /\ nextJobId \in ActiveIds'
              /\ \E k \in DOMAIN runs :
                    /\ runs[k].pc = "post"
                    /\ runs'[k].pc = "poll"
                    /\ runs'[k].jobId = nextJobId
       /\ \A k \in DOMAIN runs : PollEnd(k) => runs[k].jobId \notin ActiveIds'
       /\ (ReturnedJobs \cap ActiveIds = {})']_vars

\* polling of an accepted job ended by timeout and its id is gone
C9_Witness ==
    /\ lastOp = "timeout"
    /\ nextJobId > MaxStoredJobs + 1
    /\ ReturnedJobs # {}
    /\ ReturnedJobs \cap ActiveIds = {}

\* C10: no job id whose terminal status the client has seen is in the
\* durable set
C10_NoTerminalJobStored == ActiveIds \cap observed = {}

\* one job was seen terminal and is gone while another one is still stored
C10_Witness ==
    /\ observed # {}
    /\ ActiveIds # {}
    /\ \E n \in DOMAIN polls : polls[n].pc = "polling"

\* polling loop n of the recovery gave up: pollJobUntilComplete returned false
RecoveryTimeout(n) ==
    /\ n \in DOMAIN polls'
    /\ polls[n].pc = "polling"
    /\ polls'[n].pc = "false"

\* the polling loop of generateImage in invocation k was left by the timeout
PollTimeout(k) == PollEnd(k) /\ lastOp' = "timeout"

\* C11: when polling of a job is abandoned by the timeout, its id is out of
\* the durable set after that step, in generateImage and in
\* pollJobUntilComplete alike
C11_TimeoutRemovesId ==
    [][/\ \A k \in DOMAIN runs : PollTimeout(k) => runs[k].jobId \notin ActiveIds'
       /\ \A n \in DOMAIN polls :
             RecoveryTimeout(n) => polls[n].jobId \notin ActiveIds']_vars

\* C12: a POST answered 429 or 503 is retried after a delay of 1000 ms, then
\* 2000 ms; the third such answer is thrown; there is no fourth POST, and no
\* error is surfaced by a retried answer
C12_RetryCeiling ==
    [][\A k \in DOMAIN runs :
        /\ runs'[k].attempt < MAX_RETRIES
        /\ runs'[k].waits \in {<<>>, <<1000>>, <<1000, 2000>>}
        /\ (runs[k].pc = "post" /\ lastOp' = "retryable") =>
              IF runs[k].attempt < MAX_RETRIES - 1
              THEN /\ runs'[k].pc = "backoff"
                   /\ Len(runs'[k].waits) = runs[k].attempt + 1
                   /\ \A n \in 2..Len(runs'[k].waits) :
                         runs'[k].waits[n] = 2 * runs'[k].waits[n - 1]
                   /\ ~runs'[k].failed
                   /\ error' = error
              ELSE /\ FailStep(k)
                   /\ runs[k].waits = <<1000, 2000>>
                   /\ Len(runs[k].results) = 0 => error' = "upstream error"
        /\ (runs[k].pc = "backoff" /\ runs'[k].pc # "backoff") =>
              /\ runs'[k].pc = "post"
              /\ runs'[k].attempt = runs[k].attempt + 1
              /\ error' = error]_vars

\* the third consecutive 429/503 answer was thrown after both delays
C12_Witness ==
    /\ lastOp = "retryable"
    /\ error = "upstream error"
    /\ \E k \in DOMAIN runs : runs[k].pc = "done" /\ runs[k].failed

\* C13: a POST answer that is a failure other than 429/503 is thrown in the
\* step that receives it: the call issues no further POST and sleeps no
\* backoff, and the durable set is unchanged
C13_FatalThrowsAtOnce ==
    [][\A k \in DOMAIN runs :
        (runs[k].pc = "post" /\ lastOp' = "fatal") =>
            /\ FailStep(k)
            /\ runs'[k].pc \in {"save", "done"}
            /\ store' = store
            /\ nextJobId' = nextJobId]_vars

\* a fatal answer to the first POST of a call ended a batch, in a session
\* that has written the durable set before
C13_Witness ==
    /\ lastOp = "fatal"
    /\ store.kind = "list"
    /\ \E k \in DOMAIN runs : runs[k].pc = "done" /\ runs[k].failed

\* C14: when the polling loop of generateImage runs into the timeout the call
\* fails in that step with 'Generation timed out', which is not the message
\* of an upstream error, and the call issues no further POST or status
\* request
C14_TimeoutDistinctNoRetry ==
    [][\A k \in DOMAIN runs :
        PollTimeout(k) =>
            /\ FailStep(k)
            /\ runs'[k].pc \in {"save", "done"}
            /\ MessageOf(lastOp') = "Generation timed out"
            /\ MessageOf(lastOp') # MessageOf("error")
            /\ MessageOf(lastOp') # MessageOf("fatal")
            /\ Len(runs[k].results) = 0 =>
                  /\ error' = "Generation timed out"
                  /\ runs'[k].pc = "done"
            /\ nextJobId' = nextJobId]_vars

\* the only unit of a batch timed out and the timeout message is shown
C14_Witness ==
    /\ lastOp = "timeout"
    /\ error = "Generation timed out"
    /\ \E k \in DOMAIN runs :
          runs[k].pc = "done" /\ runs[k].failed /\ Len(runs[k].results) = 0

\* recovery placeholders of job j in a display list
RecoveryPlaceholderCount(items, j) ==
    Cardinality({n \in DOMAIN items : /\ items[n].type = "placeholder"
                                      /\ items[n].origin = "recovery"
                                      /\ items[n].key = j})

\* polling loops of job j that are running, of the recovery and the Sequencer
PollingLoops(j) ==
    Cardinality({n \in DOMAIN polls : polls[n].jobId = j /\ polls[n].pc = "polling"})
    + Cardinality({k \in DOMAIN runs : runs[k].pc = "poll" /\ runs[k].jobId = j})

\* C15: over the page session no job id has two recovery placeholders or two
\* concurrent polling loops
C15_OnePlaceholderOneLoop ==
    \A j \in 1..(MaxStoredJobs + MaxNewJobs) :
        /\ RecoveryPlaceholderCount(gridItems, j) <= 1
        /\ PollingLoops(j) <= 1

\* recovery loop n observed the terminal resolution of its job
RecoveryResolved(n) ==
    /\ n \in DOMAIN polls'
    /\ polls[n].pc = "polling"
    /\ polls'[n].pc = "true"

C17_ResumedAfterReload ==
    [][/\ lastOp' \in {"reload", "reload, queue dropped"} =>
            ActiveIds' = ActiveIds
       /\ (user = 0 /\ user' # 0) =>
             \A j \in ActiveIds :
                 \E n \in DOMAIN polls' :
                     polls'[n].jobId = j /\ polls'[n].pc = "polling"
       /\ \A n \in DOMAIN polls :
             RecoveryResolved(n) =>
                 /\ ActiveIds' = ActiveIds \ {polls[n].jobId}
                 /\ loads' = loads + 1
                 /\ \A m \in DOMAIN polls : m # n => polls'[m] = polls[m]
                 /\ UNCHANGED <<runs, queue, isProcessing, error>>]_vars

\* a job accepted before a reload was resumed and resolved while another
\* recovered job is still polled and a batch is in flight
C17_Witness ==
    /\ \E n \in DOMAIN polls :
          /\ polls[n].pc = "true"
          /\ polls[n].jobId > MaxStoredJobs
          /\ polls[n].jobId \notin ActiveIds
    /\ \E m \in DOMAIN polls : polls[m].pc = "polling"
    /\ Cardinality(InFlight) = 1
    /\ loads >= 2

\* C18: with nothing or an unparsable value under the key, addActiveJob(j)
\* leaves the stored set equal to {j}, removeActiveJob(j) leaves it empty and
\* getActiveJobIds returns the empty list
C18_MissingOrCorruptIsEmpty ==
    [][\A j \in StoreIds :
        store.kind \in {"missing", "corrupt"} =>
            /\ getActiveJobIds(store) = <<>>
            /\ lastOp' = "addActiveJob " \o ToString(j) => ActiveIds' = {j}
            /\ lastOp' = "removeActiveJob " \o ToString(j) => ActiveIds' = {}]_vars

\* C19: in every interleaving of the store operations of the polling loops,
\* addActiveJob(j) adds j to whatever is stored at that moment and nothing
\* else changes, removeActiveJob(j) removes j and nothing else, and no id is
\* stored twice
C19_NoLostUpdate ==
    [][\A j \in StoreIds :
        /\ lastOp' = "addActiveJob " \o ToString(j) =>
              ActiveIds' = ActiveIds \cup {j}
        /\ lastOp' = "removeActiveJob " \o ToString(j) =>
              ActiveIds' = ActiveIds \ {j}
        /\ Len(getActiveJobIds(store')) = Cardinality(ActiveIds')]_vars

\* an id was added again after its removal while two others are stored
C19_Witness ==
    /\ lastOp = "addActiveJob 1"
    /\ getActiveJobIds(store) = <<2, 3, 1>>

\* items of image idx of batch b in a display list
ImageItemCount(items, b, idx) ==
    Cardinality({n \in DOMAIN items : /\ items[n].type = "image"
                                      /\ items[n].origin = "batch"
                                      /\ items[n].key = b
                                      /\ items[n].idx = idx})

\* C20: a client-side save that fails changes no error and keeps the save
\* loop going with the image among the saved ones; and when a batch completes
\* with results, each returned image has exactly one item in the display
\* list, whatever the outcome of its save
C20_ShownWithoutPersistence ==
    [][\A k \in DOMAIN runs :
        /\ (runs[k].pc = "save" /\ lastOp' = "save failed") =>
              /\ error' = error
              /\ runs'[k].pc \in {"save", "done"}
              /\ runs'[k].pc = "save" =>
                    /\ Len(runs'[k].saved) > Len(runs[k].saved)
                    /\ runs'[k].s > runs[k].s
        /\ (CompleteStep(k) /\ Len(runs'[k].results) >= 1) =>
              /\ error' = error
              /\ \A idx \in 0..(Len(runs'[k].results) - 1) :
                    /\ ImageItemCount(gridItems, runs[k].batch, idx) = 0
                    /\ ImageItemCount(gridItems', runs[k].batch, idx) = 1
              /\ ImageCount(gridItems', runs[k].batch) = Len(runs'[k].results)]_vars

\* the save of the last image of a full batch of the largest size failed and
\* the batch completed with all its images shown and no error
C20_Witness ==
    /\ lastOp = "save failed"
    /\ error = "null"
    /\ \E k \in DOMAIN runs :
          /\ runs[k].pc = "done"
          /\ ~runs[k].failed
          /\ runs[k].batchSize = MaxBatchSize
          /\ ImageCount(gridItems, runs[k].batch) = MaxBatchSize

\* C21: the placeholders of a submitted batch are eventually removed, and the
\* step that removes them adds an asset of the batch or sets the error
C21_NoSilentLoss ==
    /\ [][\A b \in 1..MaxBatches :
            (PlaceholderCount(gridItems, b) > 0
                /\ PlaceholderCount(gridItems', b) = 0) =>
                \/ ImageCount(gridItems', b) > ImageCount(gridItems, b)
                \/ /\ error' # "null"
                   /\ error' = MessageOf(lastOp')]_vars
    /\ \A b \in 1..MaxBatches :
          (PlaceholderCount(gridItems, b) > 0) ~> (PlaceholderCount(gridItems, b) = 0)

\* a batch lost its placeholders to an error while a later batch still shows
\* its own behind a loaded gallery
C21_Witness ==
    /\ \E k \in DOMAIN runs :
          /\ runs[k].pc = "done"
          /\ runs[k].failed
          /\ Len(runs[k].results) = 0
          /\ PlaceholderCount(gridItems, runs[k].batch) = 0
    /\ error = "upstream error"
    /\ \E b \in 1..MaxBatches : PlaceholderCount(gridItems, b) > 0
    /\ \E n \in DOMAIN gridItems : gridItems[n].origin = "gallery"

\* invocations of processBatch with a generateImage call outstanding: in its
\* POST, in a backoff between two POSTs or in its status polling
Outstanding == {k \in DOMAIN runs : runs[k].pc \in {"post", "backoff", "poll"}}

\* C22: at most one generateImage call of the Sequencer is outstanding; the
\* unit counter of a batch advances only in the step in which the call of
\* the current unit resolves with an image, which starts the inter-request
\* delay, and the next call is issued only when that delay ends
C22_OneCallAtATime ==
    [][/\ Cardinality(Outstanding') <= 1
       /\ \A k \in DOMAIN runs :
             /\ (runs'[k].pc \notin {"save", "done"} /\ runs'[k].i # runs[k].i) =>
                   /\ k \in Outstanding
                   /\ runs'[k].i = runs[k].i + 1
                   /\ Len(runs'[k].results) = Len(runs[k].results) + 1
                   /\ runs'[k].pc = "delay"
             /\ (k \notin Outstanding /\ k \in Outstanding') =>
                   /\ runs[k].pc = "delay"
                   /\ runs'[k].i = runs[k].i
                   /\ Len(runs[k].results) = runs[k].i]_vars

\* the second unit of a batch is being polled after the first one resolved
C22_Witness ==
    \E k \in DOMAIN runs :
        /\ runs[k].pc = "poll"
        /\ runs[k].i = 1
        /\ Len(runs[k].results) = 1


\* C23: compressImageForReference lowers the quality one step at a time, only
\* after an encoding that exceeds the budget at a quality above the floor; no
\* encoding is made at a quality below the floor (so the re-encodings are
\* bounded); and a returned output exceeds the budget only at the floor.
C23_FloorRespected ==
    LET c     == compression
        floor == QualityFloor(c.version)
    IN  /\ \A n \in DOMAIN c.encoded :
              ~Greater(floor, c.encoded[n].quality)
        /\ \A n \in DOMAIN c.encoded :
              n > 1 =>
                /\ c.encoded[n - 1].length > MAX_SIZE_CHARS(c.version)
                /\ Greater(c.encoded[n - 1].quality, floor)
                /\ c.encoded[n].quality =
                     Minus(c.encoded[n - 1].quality, QualityStep(c.version))
                /\ Greater(c.encoded[n - 1].quality, c.encoded[n].quality)
        /\ (c.pc = "resolved" /\ c.dataUrl > MAX_SIZE_CHARS(c.version)) =>
              ~Greater(c.quality, floor)


\* the items of a list that are not placeholders of batch b
OthersOf(items, b) ==
    SelectSeq(items, LAMBDA p : ~(p.type = "placeholder" /\ p.origin = "batch"
                                  /\ p.key = b))

\* the placeholders of batch b occupy consecutive positions of the list
Contiguous(items, b) ==
    \A i, j \in DOMAIN items :
        (i < j /\ PlaceholderCount(<<items[i]>>, b) = 1
               /\ PlaceholderCount(<<items[j]>>, b) = 1) =>
            \A m \in i..j : PlaceholderCount(<<items[m]>>, b) = 1

\* C24: the step in which a batch completes puts its images, in generation
\* order, at the head of the display list and removes its placeholders; what
\* follows the images is the old list without those placeholders, in the old
\* order.  Until then the placeholders of a batch are contiguous.
C24_PrependAndFrame ==
    /\ [][\A k \in DOMAIN runs :
            (runs[k].pc # "done" /\ runs'[k].pc = "done") =>
                LET b == runs[k].batch
                    n == Len(runs'[k].results)
                IN  /\ Len(gridItems') >= n
                    /\ \A m \in 1..n : gridItems'[m] = ImageItem(b, m - 1)
                    /\ SubSeq(gridItems', n + 1, Len(gridItems')) =
                         OthersOf(gridItems, b)
                    /\ PlaceholderCount(gridItems', b) = 0]_vars
    /\ [](\A b \in 1..MaxBatches : Contiguous(gridItems, b))

\* a batch completed with an image while the placeholders of a two-unit batch
\* and of a recovered job are in the list
C24_Witness ==
    /\ \E k \in DOMAIN runs : runs[k].pc = "done" /\ Len(runs[k].results) > 0
    /\ gridItems # <<>>
    /\ gridItems[1].type = "image"
    /\ \E b \in 1..MaxBatches : PlaceholderCount(gridItems, b) = 2
    /\ \E m \in DOMAIN gridItems : gridItems[m].origin = "recovery"


\* batch b ran to its end
Done(b) == \E k \in DOMAIN runs : runs[k].batch = b /\ runs[k].pc = "done"

\* C25: the step that ends a batch resets the processing flag, whatever the
\* outcome; and, every generation call resolving, a batch in the queue is
\* eventually started, a started batch eventually finishes, the flag does not
\* stay set and a non-empty queue eventually becomes empty.
C25_NeverStalls ==
    /\ [][\A k \in DOMAIN runs : CompleteStep(k) => ~isProcessing']_vars
    /\ \A b \in 1..MaxBatches : (QueuedCount(b) > 0) ~> (StartsOf(b) > 0)
    /\ \A b \in 1..MaxBatches : (StartsOf(b) > 0) ~> Done(b)
    /\ isProcessing ~> ~isProcessing
    /\ (queue # <<>>) ~> (queue = <<>>)

\* both batches ran to their end, one without any image, one with a part of
\* its images; the queue is empty and the flag is reset
C25_Witness ==
    /\ queue = <<>>
    /\ ~isProcessing
    /\ \A b \in 1..MaxBatches : Done(b)
    /\ \E k \in DOMAIN runs : runs[k].failed /\ Len(runs[k].results) = 0
    /\ \E k \in DOMAIN runs : runs[k].failed /\ Len(runs[k].results) > 0


\* C26: the step in which a unit of a batch fails ends generateBatchImages:
\* the invocation goes on to saving or to its end, with the results of the
\* units issued before, all of which succeeded, in issue order; a unit that
\* succeeds appends its result; after a failure no call is issued and the
\* results do not change; there are never more results than units requested.
C26_StopsAtFirstFailure ==
    [][\A k \in DOMAIN runs :
          /\ FailStep(k) =>
                /\ runs'[k].pc \in {"save", "done"}
                /\ Len(runs'[k].results) = runs[k].i
                /\ runs'[k].pc = "save" => runs'[k].results = runs[k].results
          /\ runs[k].failed =>
                /\ runs'[k].pc \in {"save", "done"}
                /\ Len(runs'[k].results) = Len(runs[k].results)
          /\ (runs[k].pc \in {"post", "poll"} /\ runs'[k].pc = "delay") =>
                runs'[k].results = Append(runs[k].results, KindOf(lastOp'))
          /\ Len(runs'[k].results) <= runs'[k].batchSize]_vars

\* the second unit of a two-unit batch failed after the first one succeeded
\* with an image the client has to save
C26_Witness ==
    \E k \in DOMAIN runs :
        /\ runs[k].failed
        /\ runs[k].pc = "save"
        /\ runs[k].batchSize = 2
        /\ runs[k].results = <<"client">>


\* batch b is the one processBatch is executing
Executing(b) == \E k \in InFlight : runs[k].batch = b

\* C27: a placeholder of a batch shows 'generating' only while that batch is
\* in flight (or is about to start: it heads the queue and nothing is in
\* flight); the placeholders of a batch waiting behind another batch show
\* 'queued', and those of the batch in flight show 'generating'.
C27_GeneratingOnlyInFlight ==
    \A n \in DOMAIN gridItems :
        LET p == gridItems[n]
        IN  (p.type = "placeholder" /\ p.origin = "batch") =>
              /\ p.status = "generating" =>
                    \/ Executing(p.key)
                    \/ /\ InFlight = {}
                       /\ queue # <<>>
                       /\ HeadBatch(queue).id = p.key
              /\ Executing(p.key) => p.status = "generating"


\* C28: a loop of pollJobUntilComplete returns true only in a step that saw a
\* terminal answer, with the job id removed from the store and onComplete
\* called once; it returns false only in a step that found the time used up,
\* with onComplete never called; a terminal answer or a timeout always ends a
\* loop, and a pending job or a throwing request ends none.
C28_PollReturnValue ==
    [][\A n \in DOMAIN polls :
          (polls[n].pc = "polling" /\ n \in DOMAIN polls') =>
              /\ polls'[n].pc = "true" =>
                    /\ polls'[n].answer \in {"done", "error"}
                    /\ polls'[n].completions = 1
                    /\ ~Includes(getActiveJobIds(store'), polls[n].jobId)
              /\ polls'[n].pc = "false" =>
                    /\ polls'[n].answer = "timeout"
                    /\ polls'[n].completions = 0
              /\ polls'[n].pc = "polling" => polls'[n].completions = 0
              /\ polls'[n] # polls[n] =>
                    /\ polls'[n].answer \in {"done", "error"} =>
                          polls'[n].pc = "true"
                    /\ polls'[n].answer = "timeout" => polls'[n].pc = "false"
                    /\ polls'[n].answer \in {"pending", "network"} =>
                          polls'[n].pc = "polling"]_vars

\* a status request threw and its loop goes on polling, beside a loop that has
\* returned
C28_Witness ==
    /\ \E n \in DOMAIN polls :
          polls[n].pc = "polling" /\ polls[n].answer = "network"
    /\ \E n \in DOMAIN polls :
          polls[n].pc = "true" /\ polls[n].answer = "error"

\* the ids of the batches submitted since the page was loaded
SubmittedBatches == 1..batchIdCounter

\* C29: a reload leaves the queue and the display list empty, with no
\* invocation, no polling loop and no batch counted, and keeps the durable
\* set; afterwards every queued batch, invocation and batch placeholder belongs
\* to a batch submitted since the reload, and every polling loop and recovery
\* placeholder the sign-in brings back belongs to a job id of the durable set.
C29_OnlyDurableJobsReappear ==
    /\ [][/\ lastOp' \in {"reload", "reload, queue dropped"} =>
               /\ queue' = <<>> /\ gridItems' = <<>> /\ runs' = <<>>
               /\ polls' = <<>> /\ batchIdCounter' = 0
               /\ store' = store
          /\ (user = 0 /\ user' # 0) =>
               /\ \A n \in DOMAIN polls' :
                     n \notin DOMAIN polls => polls'[n].jobId \in ActiveIds
               /\ \A n \in DOMAIN gridItems' :
                     \/ /\ gridItems'[n].origin = "recovery"
                        /\ gridItems'[n].key \in ActiveIds
                     \/ \E m \in DOMAIN gridItems : gridItems[m] = gridItems'[n]
               /\ UNCHANGED <<queue, runs>>]_vars
    /\ [](/\ \A n \in DOMAIN queue : queue[n].id \in SubmittedBatches
          /\ \A k \in DOMAIN runs : runs[k].batch \in SubmittedBatches
          /\ \A n \in DOMAIN gridItems :
                gridItems[n].origin = "batch" =>
                    gridItems[n].key \in SubmittedBatches)

\* a reload has just found a batch waiting in the queue, and a job accepted
\* before it in the durable set: the batch is gone, the job id is kept
C29_Witness ==
    /\ lastOp = "reload, queue dropped"
    /\ queue = <<>>
    /\ gridItems = <<>>
    /\ batchIdCounter = 0
    /\ \E j \in ActiveIds : j > MaxStoredJobs


\* C30: whatever the reference-image operations and the order in which the
\* compressions settle, the reference list of a request never holds more
\* than MAX_REFERENCE_IMAGES entries.
C30_AtMostSixReferences == Len(attached) <= MAX_REFERENCE_IMAGES

====
